---- MODULE Spec2Model ----
(***************************************************************************)
(* The schedule-validation core of the OR timetable dashboard (app.py):    *)
(* load_god_mode_data normalises the three CSV tables, the empty-data      *)
(* guard stops the script, the Student tab counts the time conflicts of    *)
(* the student picked, and the Validation tab computes its checks and the  *)
(* aggregate verdict.                                                      *)
(*                                                                         *)
(* Text is modelled as a sequence of one-character strings wherever the    *)
(* code takes it apart (section ids, room numbers, dates); the en dash of  *)
(* the slot descriptions is written "-".  The department colour (an md5    *)
(* bucket) feeds no check and is left out.                                 *)
(***************************************************************************)
EXTENDS Integers, Sequences, FiniteSets, TLC

VARIABLES
    pc,             \* position of the script run
    files_present,  \* whether the three CSV files can be read
    tt_csv,         \* final_strict_timetable: sequence of raw rows
    cm_csv,         \* godmode_2way_conflict_matrix: [index, columns, cell]
    en_csv,         \* godmode_2way_master_enrolment: sequence of raw rows
    df_all,         \* normalised schedule
    students_map,   \* section label -> list of student ids
    df_cm,          \* conflict matrix as loaded
    rc,             \* room double-bookings
    fc_v,           \* faculty conflicts
    overlap_fails,  \* student class overlaps
    pat_ok,         \* recurring weekly pattern
    bad,            \* invalid time slots
    ra,             \* classroom availability
    checks,         \* list of (label, detail, ok)
    verdict,        \* message shown under the checks
    week_range,     \* sidebar slider "Week range"
    sel_stu,        \* student picked in the Student tab
    n_cf            \* time conflicts shown for that student

vars == <<pc, files_present, tt_csv, cm_csv, en_csv, df_all, students_map, df_cm,
          rc, fc_v, overlap_fails, pat_ok, bad, ra, checks, verdict,
          week_range, sel_stu, n_cf>>

-----------------------------------------------------------------------------
(* Program constants *)

DAYS == <<"Monday", "Tuesday", "Wednesday", "Thursday", "Friday", "Saturday", "Sunday">>

WD_SLOTS  == <<"09:00", "10:45", "12:30", "14:45", "16:30", "18:15">>
SUN_SLOTS == <<"09:00", "10:45", "12:30", "14:45">>

SLOT_MAPPING ==
    [k \in {"09:00 AM - 10:30 AM", "10:45 AM - 12:15 PM", "12:30 PM - 02:00 PM",
            "02:45 PM - 04:15 PM", "04:30 PM - 06:00 PM", "06:15 PM - 07:45 PM"} |->
        CASE k = "09:00 AM - 10:30 AM" -> "09:00"
          [] k = "10:45 AM - 12:15 PM" -> "10:45"
          [] k = "12:30 PM - 02:00 PM" -> "12:30"
          [] k = "02:45 PM - 04:15 PM" -> "14:45"
          [] k = "04:30 PM - 06:00 PM" -> "16:30"
          [] k = "06:15 PM - 07:45 PM" -> "18:15"]

\* The missing value of a pandas column (read_csv reads the text NaN as it).
NaN == "NaN"

DEFAULT_SLOT == "09:00"

REQUIRED_SESSIONS == 940

OVERLAP_LIMIT == 9000

EARLY_WEEKS == 4

EARLY_MAX_ROOM == 10

LATE_MAX_ROOM == 4

-----------------------------------------------------------------------------
(* Text helpers *)

Range(s) == {s[i] : i \in DOMAIN s}

All(bs) == \A i \in DOMAIN bs : bs[i]

\* str.replace('"', ''): every occurrence of the character is dropped.
IsNotQuote(c) == c # "\""
StripQuotes(s) == SelectSeq(s, IsNotQuote)

\* str.split('_')[0]: the text before the first underscore.
RECURSIVE SplitFirst(_)
SplitFirst(s) ==
    IF s = <<>> \/ Head(s) = "_" THEN <<>> ELSE <<Head(s)>> \o SplitFirst(Tail(s))

\* str.replace('CR', ''): every non-overlapping occurrence, left to right.
RECURSIVE RemoveCR(_)
RemoveCR(s) ==
    IF Len(s) < 2 THEN s
    ELSE IF s[1] = "C" /\ s[2] = "R" THEN RemoveCR(SubSeq(s, 3, Len(s)))
    ELSE <<Head(s)>> \o RemoveCR(Tail(s))

Digits == {"0", "1", "2", "3", "4", "5", "6", "7", "8", "9"}

DigitVal(c) ==
    CASE c = "0" -> 0 [] c = "1" -> 1 [] c = "2" -> 2 [] c = "3" -> 3 [] c = "4" -> 4
      [] c = "5" -> 5 [] c = "6" -> 6 [] c = "7" -> 7 [] c = "8" -> 8 [] c = "9" -> 9

\* int(text) of unsigned decimal text; any other text raises ValueError.
IsInt(s) == s # <<>> /\ \A i \in DOMAIN s : s[i] \in Digits

RECURSIVE ToInt(_)
ToInt(s) == IF s = <<>> THEN 0 ELSE 10 * ToInt(SubSeq(s, 1, Len(s) - 1)) + DigitVal(s[Len(s)])

\* Series.unique(): first occurrences, in order of appearance.
Unique(s) ==
    LET firsts == {i \in DOMAIN s : \A j \in 1..(i - 1) : s[j] # s[i]}
        Nth(k)  == CHOOSE i \in firsts : Cardinality({j \in firsts : j <= i}) = k
    IN  [k \in 1..Cardinality(firsts) |-> s[Nth(k)]]

-----------------------------------------------------------------------------
(* load_god_mode_data *)

\* tt['Time_Slot'].map(SLOT_MAPPING): NaN for a value that is no key.
MapSlot(raw) == IF raw \in DOMAIN SLOT_MAPPING THEN SLOT_MAPPING[raw] ELSE NaN

\* .fillna('09:00')
FillNa(v) == IF v = NaN THEN DEFAULT_SLOT ELSE v

Slot(raw) == FillNa(MapSlot(raw))

\* 'CR' + tt['Room_Number'].astype(str)
Room(number) == <<"C", "R">> \o number

Faculty_Shared(course) == <<"Prof. ", " Lead">>

\* 'Prof. ' + tt['course'] + ' Lead'
Faculty(course) == <<"Prof. ">> \o course \o <<" Lead">>

Normalise(row) ==
    [Date       |-> StripQuotes(row.Date),
     Time_Slot  |-> row.Time_Slot,
     section_id |-> row.Course_Section,
     course     |-> SplitFirst(row.Course_Section),
     week       |-> row.Week,
     day        |-> row.Day,
     slot       |-> Slot(row.Time_Slot),
     room       |-> Room(row.Room_Number),
     faculty    |-> Faculty(SplitFirst(row.Course_Section))]

\* students_map[row['Section_Label']].append(row['StudentID'])
RECURSIVE StudentsMap(_)
StudentsMap(en) ==
    IF en = <<>> THEN <<>>
    ELSE LET m   == StudentsMap(SubSeq(en, 1, Len(en) - 1))
             row == en[Len(en)]
             old == IF row.Section_Label \in DOMAIN m THEN m[row.Section_Label] ELSE <<>>
         IN  [s \in DOMAIN m \cup {row.Section_Label} |->
                 IF s = row.Section_Label THEN Append(old, row.StudentID) ELSE m[s]]

EmptyFrame == [index |-> {}, columns |-> {}, cell |-> <<>>]

-----------------------------------------------------------------------------
(* Validation tab *)

RoomKey_NoWeek(r) == <<r.day, r.slot, r.room>>

RoomKey(r)    == <<r.week, r.day, r.slot, r.room>>
FacultyKey(r) == <<r.week, r.day, r.slot, r.faculty>>
DateSlotKey(r) == <<r.Date, r.Time_Slot>>

\* df.groupby(keys).size(): one entry per key, the number of rows under it.
RoomGroups(df) ==
    LET keys == {RoomKey(df[i]) : i \in DOMAIN df}
    IN  [k \in keys |-> Cardinality({i \in DOMAIN df : RoomKey(df[i]) = k})]

FacultyGroups(df) ==
    LET keys == {FacultyKey(df[i]) : i \in DOMAIN df}
    IN  [k \in keys |-> Cardinality({i \in DOMAIN df : FacultyKey(df[i]) = k})]

\* int((sizes > 1).sum())
CountOver1(sizes) == Cardinality({k \in DOMAIN sizes : sizes[k] > 1})

\* df_all.groupby(['Date', 'Time_Slot']): rows with a missing key are dropped.
DateSlotGroups(df) == {DateSlotKey(df[i]) : i \in {j \in DOMAIN df : df[j].Time_Slot # NaN}}

IsDateSlotRow(r, k) == DateSlotKey(r) = k

\* group['section_id'].unique().tolist()
GroupSections(df, k) ==
    LET IsMember(r) == IsDateSlotRow(r, k)
        rows == SelectSeq(df, IsMember)
    IN  Unique([i \in DOMAIN rows |-> rows[i].section_id])

Guarded_IndexOnly(cm, a, b) == a \in cm.index

\* sections[i] in df_cm.index and sections[j] in df_cm.columns
Guarded(cm, a, b) == a \in cm.index /\ b \in cm.columns

\* 0 < df_cm.loc[a, b] < 9000, behind the membership guard
PairFails(cm, a, b) ==
    /\ Guarded(cm, a, b)
    /\ 0 < cm.cell[<<a, b>>]
    /\ cm.cell[<<a, b>>] < OVERLAP_LIMIT

\* The (i, j) positions of one group that add one to overlap_fails.
GroupFails(cm, sections) ==
    IF Len(sections) > 1
    THEN {p \in (DOMAIN sections) \X (DOMAIN sections) :
            p[1] < p[2] /\ PairFails(cm, sections[p[1]], sections[p[2]])}
    ELSE {}

\* df_cm.loc[a, b] raises KeyError for a label missing from its axis.
LookupRaises(cm, a, b) == <<a, b>> \notin DOMAIN cm.cell

OverlapRaises(df, cm) ==
    \E k \in DateSlotGroups(df) :
        LET sections == GroupSections(df, k)
        IN  \E i, j \in DOMAIN sections :
                i < j /\ Guarded(cm, sections[i], sections[j])
                      /\ LookupRaises(cm, sections[i], sections[j])

OverlapHits(df, cm) ==
    UNION {{<<k, p>> : p \in GroupFails(cm, GroupSections(df, k))} : k \in DateSlotGroups(df)}

OverlapFails(df, cm) == Cardinality(OverlapHits(df, cm))

\* The distinct per-week frozensets of (day, slot) of one section.
WeekPatterns(df, sid) ==
    LET rows  == {i \in DOMAIN df : df[i].section_id = sid}
        weeks == {df[i].week : i \in rows}
    IN  {{<<df[i].day, df[i].slot>> : i \in {j \in rows : df[j].week = w}} : w \in weeks}

PatLoop_FirstOnly(df, sids) ==
    sids = <<>> \/ Cardinality(WeekPatterns(df, Head(sids))) <= 1

\* for sid in unique(): if len(ps) > 1: pat_ok = False; break
RECURSIVE PatLoop(_, _)
PatLoop(df, sids) ==
    IF sids = <<>> THEN TRUE
    ELSE IF Cardinality(WeekPatterns(df, Head(sids))) > 1 THEN FALSE
    ELSE PatLoop(df, Tail(sids))

PatOk(df) == PatLoop(df, Unique([i \in DOMAIN df |-> df[i].section_id]))

\* (~df_all['slot'].isin(set(WD_SLOTS + SUN_SLOTS))).sum()
AllowedSlots == Range(WD_SLOTS \o SUN_SLOTS)

BadSlots(df) == Cardinality({i \in DOMAIN df : df[i].slot \notin AllowedSlots})

MaxRoom_Flat(week) == EARLY_MAX_ROOM

MaxRoom(week) == IF week <= EARLY_WEEKS THEN EARLY_MAX_ROOM ELSE LATE_MAX_ROOM

\* rchk(row); a room text that int() rejects takes the except branch.
rchk(row) ==
    LET mx   == MaxRoom(row.week)
        text == RemoveCR(row.room)
    IN  IF IsInt(text) THEN ToInt(text) <= mx ELSE TRUE

\* df_all.apply(rchk, axis=1)
RoomChecks(df) == [i \in DOMAIN df |-> rchk(df[i])]

Check(label, detail, ok) == [label |-> label, detail |-> detail, ok |-> ok]

\* checks.append((label, detail, ok)), in the order of the script
Checks(n, rc_, fc_, ov_, pat_, bad_, ra_) ==
    << Check("Sessions Scheduled", ToString(n), n >= REQUIRED_SESSIONS),
       Check("Room double-bookings (0)", ToString(rc_), rc_ = 0),
       Check("Faculty conflicts (0)", ToString(fc_), fc_ = 0),
       Check("Student Class Overlaps (0)", ToString(ov_), ov_ = 0),
       Check("Recurring weekly pattern", IF pat_ THEN "ok" ELSE "Varies", pat_),
       Check("Valid time slots", ToString(bad_) \o " invalid", bad_ = 0),
       Check("Classroom availability checks", IF ra_ THEN "ok" ELSE "x", ra_),
       Check("Break compliance (15-min gaps, 45-min lunch)", "By design", TRUE),
       Check("Sunday ends <= 17:00", "Last slot 14:45-16:15", TRUE) >>

AllOk_Any(cs) == \E i \in DOMAIN cs : cs[i].ok

\* all(ok for _, _, ok in checks)
AllOk(cs) == \A i \in DOMAIN cs : cs[i].ok

-----------------------------------------------------------------------------
(* Student tab *)

\* st.slider("Week range", 1, 10, (1, 10)): the default and one narrower choice.
WEEK_RANGES == {<<1, 10>>, <<2, 10>>}

\* stu_sections[stu].append(sid) for every student of every section; the list
\* is used for membership only (isin), so it is kept as the set of its entries.
StuSections(m) ==
    LET students == UNION {Range(m[sid]) : sid \in DOMAIN m}
    IN  [stu \in students |-> {sid \in DOMAIN m : stu \in Range(m[sid])}]

\* Series.between(left, right), both ends included
Between(w, wr) == wr[1] <= w /\ w <= wr[2]

\* df_all[df_all['section_id'].isin(sids) & df_all['week'].between(*week_range)]
StudentRows(df, sids, wr) ==
    {i \in DOMAIN df : df[i].section_id \in sids /\ Between(df[i].week, wr)}

TimeKey(r) == <<r.week, r.day, r.slot>>

\* df_stu.groupby(['week', 'day', 'slot']).size()
TimeGroups(df, rows) ==
    LET keys == {TimeKey(df[i]) : i \in rows}
    IN  [k \in keys |-> Cardinality({i \in rows : TimeKey(df[i]) = k})]

-----------------------------------------------------------------------------
(* The script run *)

\* load_god_mode_data, the try branch.
LoadGodModeData ==
    /\ pc = "start"
    /\ files_present
    /\ df_all' = [i \in DOMAIN tt_csv |-> Normalise(tt_csv[i])]
    /\ students_map' = StudentsMap(en_csv)
    /\ df_cm' = cm_csv
    /\ pc' = "loaded"
    /\ UNCHANGED <<files_present, tt_csv, cm_csv, en_csv,
                   rc, fc_v, overlap_fails, pat_ok, bad, ra, checks, verdict,
                   week_range, sel_stu, n_cf>>

\* load_god_mode_data, the except branch: empty frames.
LoadFailed ==
    /\ pc = "start"
    /\ ~files_present
    /\ df_all' = <<>>
    /\ students_map' = <<>>
    /\ df_cm' = EmptyFrame
    /\ pc' = "loaded"
    /\ UNCHANGED <<files_present, tt_csv, cm_csv, en_csv,
                   rc, fc_v, overlap_fails, pat_ok, bad, ra, checks, verdict,
                   week_range, sel_stu, n_cf>>

\* if df_all.empty: st.warning(...); st.stop()
StopOnEmpty ==
    /\ pc = "loaded"
    /\ df_all = <<>>
    /\ pc' = "stopped"
    /\ UNCHANGED <<files_present, tt_csv, cm_csv, en_csv, df_all, students_map, df_cm,
                   rc, fc_v, overlap_fails, pat_ok, bad, ra, checks, verdict,
                   week_range, sel_stu, n_cf>>

\* with tab4: the personal timetable of the student picked, over the weeks of
\* the sidebar slider, and its count of time conflicts.  Without enrolment data
\* the tab shows a notice only.
StudentTimetable ==
    /\ pc = "loaded"
    /\ df_all # <<>>
    /\ IF DOMAIN students_map = {}
       THEN UNCHANGED <<week_range, sel_stu, n_cf>>
       ELSE \E stu \in DOMAIN StuSections(students_map), wr \in WEEK_RANGES :
               /\ week_range' = wr
               /\ sel_stu' = stu
               /\ n_cf' = CountOver1(TimeGroups(df_all, StudentRows(df_all, StuSections(students_map)[stu], wr)))
    /\ pc' = "tab5"
    /\ UNCHANGED <<files_present, tt_csv, cm_csv, en_csv, df_all, students_map, df_cm,
                   rc, fc_v, overlap_fails, pat_ok, bad, ra, checks, verdict>>

\* with tab5: the checks and the message under them.  An exception of the
\* overlap loop would end the run before any check is shown.
Validation ==
    /\ pc = "tab5"
    /\ IF OverlapRaises(df_all, df_cm)
       THEN /\ pc' = "crashed"
            /\ UNCHANGED <<rc, fc_v, overlap_fails, pat_ok, bad, ra, checks, verdict>>
       ELSE /\ rc' = CountOver1(RoomGroups(df_all))
            /\ fc_v' = CountOver1(FacultyGroups(df_all))
            /\ overlap_fails' = OverlapFails(df_all, df_cm)
            /\ pat_ok' = PatOk(df_all)
            /\ bad' = BadSlots(df_all)
            /\ ra' = All(RoomChecks(df_all))
            /\ checks' = Checks(Len(df_all), rc', fc_v', overlap_fails', pat_ok', bad', ra')
            /\ verdict' = IF AllOk(checks') THEN "success" ELSE "error"
            /\ pc' = "done"
    /\ UNCHANGED <<files_present, tt_csv, cm_csv, en_csv, df_all, students_map, df_cm,
                   week_range, sel_stu, n_cf>>

Next == LoadGodModeData \/ LoadFailed \/ StopOnEmpty \/ StudentTimetable \/ Validation

-----------------------------------------------------------------------------
(* Inputs *)

MaxRows == 3

MaxPatternRows == 4

\* The rows of the timetable file.  Date, Week, Day and Course_Section are
\* always filled in; Time_Slot may be any text or missing.
ScheduleRows(Dates, Weeks, Days, Slots, Rooms, Sections) ==
    [Date : Dates, Week : Weeks, Day : Days, Time_Slot : Slots,
     Room_Number : Rooms, Course_Section : Sections]

SeqsUpTo(S, n) == UNION {[1..k -> S] : k \in 0..n}

\* Conflict matrices over the given axes: the diagonal holds the sentinel of the
\* data (9999), every other cell a value of Values.
Matrices(IndexSets, ColumnSets, Values) ==
    UNION {UNION {{[index |-> I, columns |-> J, cell |-> c] :
                     c \in {f \in [I \X J -> Values \cup {9999}] :
                              \A p \in I \X J : IF p[1] = p[2] THEN f[p] = 9999
                                                ELSE f[p] \in Values}}
                  : J \in ColumnSets} : I \in IndexSets}

\* Nothing is loaded and no check has run.
NothingRun ==
    /\ pc = "start"
    /\ df_all = <<>>
    /\ students_map = <<>>
    /\ df_cm = EmptyFrame
    /\ rc = 0
    /\ fc_v = 0
    /\ overlap_fails = 0
    /\ pat_ok = TRUE
    /\ bad = 0
    /\ ra = TRUE
    /\ checks = <<>>
    /\ verdict = "none"
    /\ week_range = <<1, 10>>
    /\ sel_stu = "none"
    /\ n_cf = 0

FilesMissing ==
    /\ files_present = FALSE
    /\ tt_csv = <<>>
    /\ cm_csv = EmptyFrame
    /\ en_csv = <<>>

\* The three files, the enrolment file with rows.
FilesEnrolled(Schedules, Cms, Enrolments) ==
    /\ files_present = TRUE
    /\ tt_csv \in Schedules
    /\ cm_csv \in Cms
    /\ en_csv \in Enrolments

\* The three files, the enrolment file without rows.
Files(Schedules, Cms) == FilesEnrolled(Schedules, Cms, {<<>>})

InitWith(ScheduleRowSet, n, Cms) ==
    /\ NothingRun
    /\ Files(SeqsUpTo(ScheduleRowSet, n), Cms) \/ FilesMissing

S0900 == "09:00 AM - 10:30 AM"
S1045 == "10:45 AM - 12:15 PM"
S1630 == "04:30 PM - 06:00 PM"

SecFA == <<"F", "_", "A">>
SecFB == <<"F", "_", "B">>
SecMA == <<"M", "_", "A">>
SecA1 == <<"A", "_", "1">>
SecAX == <<"A", "_", "X">>

D1 == <<"\"", "2025-01-06", "\"">>
D2 == <<"2025-01-07">>

R3  == <<"3">>
R4  == <<"4">>
R5  == <<"5">>
R8  == <<"8">>
R10 == <<"1", "0">>
R11 == <<"1", "1">>
RA  == <<"A">>
R1  == <<"1">>
R9  == <<"9">>

\* Rooms: two weeks, two days, three slot texts (one unmapped), two rooms.
RoomRows ==
    ScheduleRows({D1}, {1, 2}, {"Monday", "Tuesday"}, {S0900, S1045, "TBD"}, {R3, R8}, {SecFA})

\* Faculty: three sections of two courses.
FacultyRows ==
    ScheduleRows({D1}, {1, 2}, {"Monday"}, {S0900, S1045}, {R3, R8}, {SecFA, SecFB, SecMA})

\* Student overlap: two dates, a mapped and an unmapped slot text (both become
\* 09:00), two sections; every matrix over axes within those sections.
OverlapRows ==
    ScheduleRows({D1, D2}, {1}, {"Monday"}, {S0900, "TBD"}, {R3}, {SecFA, SecMA})

OverlapMatrices ==
    Matrices(SUBSET {SecFA, SecMA} \ {{}}, SUBSET {SecFA, SecMA} \ {{}}, {0, 5, 9500, 9999})

\* Sparse matrices: three sections, any of them missing from either axis.
SparseRows ==
    ScheduleRows({D1}, {1}, {"Monday"}, {S0900, S1045}, {R3}, {SecFA, SecFB, SecMA})

SparseMatrices ==
    Matrices(SUBSET {SecFA, SecFB, SecMA}, SUBSET {SecFA, SecFB, SecMA}, {5})

\* Slots: the reduced-set day and another one, late, early, unmapped and missing slots.
SlotRows ==
    ScheduleRows({D1}, {1, 2}, {"Monday", "Sunday"}, {S0900, S1630, "TBD", NaN}, {R3}, {SecFA})

\* Weekly pattern: two sections over two weeks and two days.
PatternRows ==
    ScheduleRows({D1}, {1, 2}, {"Monday", "Wednesday"}, {S0900}, {R3}, {SecFA, SecMA})

\* Room ceiling: the weeks and room numbers on both sides of each step.
CapacityRows ==
    ScheduleRows({D1}, {4, 5}, {"Monday"}, {S0900, S1045}, {R4, R5, R10, R11, RA}, {SecFA})

\* Every check at once: rows that can break each of them.
VerdictRows ==
    ScheduleRows({D1}, {1, 5}, {"Monday", "Wednesday"}, {S0900}, {R3, R8}, {SecFA, SecMA})

VerdictMatrices == Matrices({{SecFA, SecMA}}, {{SecFA, SecMA}}, {0, 5})

\* A schedule that passes every check: 940 sessions, 94 a week over ten weeks,
\* on four days, six slots and rooms 1 to 4, each (day, slot, room) its own
\* section and each room its own course.
DigitText == <<"0", "1", "2", "3", "4", "5", "6", "7", "8", "9">>

NumText(n) ==
    IF n < 10 THEN <<DigitText[n + 1]>>
    ELSE <<DigitText[(n \div 10) + 1], DigitText[(n % 10) + 1]>>

DateText(w, d) == <<"W">> \o NumText(w) \o <<"D">> \o NumText(d)

CourseText == <<"A", "B", "C", "D">>

SlotTexts == <<"09:00 AM - 10:30 AM", "10:45 AM - 12:15 PM", "12:30 PM - 02:00 PM",
               "02:45 PM - 04:15 PM", "04:30 PM - 06:00 PM", "06:15 PM - 07:45 PM">>

FullRow(w, n) ==
    LET d  == ((n - 1) \div 24) + 1
        sl == (((n - 1) % 24) \div 4) + 1
        r  == ((n - 1) % 4) + 1
    IN  [Date |-> DateText(w, d), Week |-> w, Day |-> DAYS[d], Time_Slot |-> SlotTexts[sl],
         Room_Number |-> NumText(r), Course_Section |-> <<CourseText[r], "_">> \o NumText(n)]

FullSchedule ==
    [i \in 1..REQUIRED_SESSIONS |-> FullRow(((i - 1) \div 94) + 1, ((i - 1) % 94) + 1)]

ExtraRow(w, d, room, section) ==
    [Date |-> DateText(w, d), Week |-> w, Day |-> DAYS[d], Time_Slot |-> S0900,
     Room_Number |-> room, Course_Section |-> section]

\* One more session, each breaking one check of the full schedule: the room of
\* A_1, the course of A_1, a section sharing students with A_1, A_1 on one more
\* day of week 2, and room 11.
ExtraRows ==
    {ExtraRow(1, 1, R1, SecFA), ExtraRow(1, 1, R9, SecAX), ExtraRow(1, 1, R9, SecMA),
     ExtraRow(2, 7, R1, SecA1), ExtraRow(1, 7, R11, SecFA)}

FullSchedules == {FullSchedule} \cup {Append(FullSchedule, r) : r \in ExtraRows}

FullMatrices == Matrices({{SecA1, SecMA}}, {{SecA1, SecMA}}, {5})

Init == InitWith(RoomRows, MaxRows, {EmptyFrame})
Spec == Init /\ [][Next]_vars

InitFaculty == InitWith(FacultyRows, MaxRows, {EmptyFrame})
SpecFaculty == InitFaculty /\ [][Next]_vars

InitOverlap == InitWith(OverlapRows, MaxRows, OverlapMatrices)
SpecOverlap == InitOverlap /\ [][Next]_vars

InitSparse == InitWith(SparseRows, MaxRows, SparseMatrices)
SpecSparse == InitSparse /\ [][Next]_vars

InitSlots == InitWith(SlotRows, MaxRows, {EmptyFrame})
SpecSlots == InitSlots /\ [][Next]_vars

InitPattern == InitWith(PatternRows, MaxPatternRows, {EmptyFrame})
SpecPattern == InitPattern /\ [][Next]_vars

InitCapacity == InitWith(CapacityRows, MaxRows, {EmptyFrame})
SpecCapacity == InitCapacity /\ [][Next]_vars

InitVerdict ==
    /\ NothingRun
    /\ \/ Files(SeqsUpTo(VerdictRows, MaxRows), VerdictMatrices)
       \/ Files(FullSchedules, FullMatrices)
       \/ FilesMissing
SpecVerdict == InitVerdict /\ [][Next]_vars

MaxEnrolRows == 2

\* The rows of the enrolment file.
EnrolmentRows(Students, Sections) == [StudentID : Students, Section_Label : Sections]

\* Student timetables: two sections in two rooms on one day, in two slots of the
\* mapping or with an unmapped slot text, two students enrolled in any of them,
\* a full matrix over both sections.
StudentScheduleRows ==
    ScheduleRows({D1}, {1}, {"Monday"}, {S0900, S1045, "TBD"}, {R3, R8}, {SecFA, SecMA})

StudentEnrolments == SeqsUpTo(EnrolmentRows({"S1", "S2"}, {SecFA, SecMA}), MaxEnrolRows)

StudentMatrices == Matrices({{SecFA, SecMA}}, {{SecFA, SecMA}}, {0, 1})

InitStudent ==
    /\ NothingRun
    /\ \/ FilesEnrolled(SeqsUpTo(StudentScheduleRows, MaxRows), StudentMatrices, StudentEnrolments)
       \/ FilesMissing
SpecStudent == InitStudent /\ [][Next]_vars

-----------------------------------------------------------------------------
(* Properties *)

Done == pc = "done"

Rows == DOMAIN df_all

SectionIds == {df_all[i].section_id : i \in Rows}

SectionPairs == {P \in SUBSET SectionIds : Cardinality(P) = 2}

\* Sections a and b are both active on date d in canonical slot s.
CoActive(P, d, s) ==
    \A a \in P : \E i \in Rows :
        df_all[i].section_id = a /\ df_all[i].Date = d /\ df_all[i].slot = s

DateSlots == {<<df_all[i].Date, df_all[i].slot>> : i \in Rows}

CellPresent(a, b) == a \in df_cm.index /\ b \in df_cm.columns

MatrixSymmetric ==
    /\ df_cm.index = df_cm.columns
    /\ \A a, b \in df_cm.index : df_cm.cell[<<a, b>>] = df_cm.cell[<<b, a>>]

SlotsMapped == \A i \in Rows : df_all[i].Time_Slot \in DOMAIN SLOT_MAPPING

\* Pairs of the matrix whose value lies strictly between zero and the sentinel.
BelowSentinel(P) ==
    \E a, b \in P : a # b /\ CellPresent(a, b)
                         /\ 0 < df_cm.cell[<<a, b>>] /\ df_cm.cell[<<a, b>>] < 9999

ClaimedOverlaps ==
    {t \in DateSlots \X SectionPairs : CoActive(t[2], t[1][1], t[1][2]) /\ BelowSentinel(t[2])}

\* C1: two distinct sections active on the same (date, timeSlotKey) whose matrix
\* value v has 0 < v < 9999 give exactly one violation for that pair/date/slot,
\* and a value of 9999 gives none: the overlap count is the number of such
\* pair/date/slot triples.  Stated for symmetric matrices and mapped slot texts.
C1_OverlapBelowSentinel ==
    (Done /\ MatrixSymmetric /\ SlotsMapped) => overlap_fails = Cardinality(ClaimedOverlaps)

\* The keys (week, day, timeSlotKey, room) that two or more sessions occupy.
SharedRoomKeys ==
    {<<df_all[i].week, df_all[i].day, df_all[i].slot, df_all[i].room>> :
        i \in {i \in Rows : \E j \in Rows \ {i} :
                  /\ df_all[j].week = df_all[i].week
                  /\ df_all[j].day = df_all[i].day
                  /\ df_all[j].slot = df_all[i].slot
                  /\ df_all[j].room = df_all[i].room}}

\* C2: the room double-booking count is the number of keys (week, day,
\* timeSlotKey, room) that two or more sessions share, one per key however many
\* sessions share it, and the check passes iff there is no such key.
C2_RoomDoubleBooking ==
    Done => /\ rc = Cardinality(SharedRoomKeys)
            /\ checks[2].ok <=> (SharedRoomKeys = {})

\* Three sessions in one room at one time next to a session alone on its key.
C2_Witness ==
    /\ Done
    /\ rc = 1
    /\ \E i, j, k \in Rows :
          /\ i < j /\ j < k
          /\ RoomKey(df_all[i]) = RoomKey(df_all[j])
          /\ RoomKey(df_all[j]) = RoomKey(df_all[k])

\* The keys (week, day, timeSlotKey, course) that two or more sessions occupy.
SharedCourseKeys ==
    {<<df_all[i].week, df_all[i].day, df_all[i].slot, df_all[i].course>> :
        i \in {i \in Rows : \E j \in Rows \ {i} :
                  /\ df_all[j].week = df_all[i].week
                  /\ df_all[j].day = df_all[i].day
                  /\ df_all[j].slot = df_all[i].slot
                  /\ df_all[j].course = df_all[i].course}}

\* C3: the faculty conflict count is the number of keys (week, day, timeSlotKey,
\* course) that two or more sessions share, the faculty being derived per course;
\* sessions of different courses never count, even in the same week, day and slot.
C3_FacultyDoubleBooking ==
    Done => /\ fc_v = Cardinality(SharedCourseKeys)
            /\ checks[3].ok <=> (SharedCourseKeys = {})

\* Two sections of one course and a section of another course, all at one time.
C3_Witness ==
    /\ Done
    /\ fc_v = 1
    /\ \E i, j, k \in Rows :
          /\ df_all[i].week = df_all[j].week /\ df_all[j].week = df_all[k].week
          /\ df_all[i].slot = df_all[j].slot /\ df_all[j].slot = df_all[k].slot
          /\ df_all[i].section_id # df_all[j].section_id
          /\ df_all[i].course = df_all[j].course
          /\ df_all[k].course # df_all[i].course

\* The groups the overlap loop walks, as sets of sections.
LoopGroups == {<<df_all[i].Date, df_all[i].Time_Slot>> : i \in {j \in Rows : df_all[j].Time_Slot # NaN}}

InGroup(P, k) ==
    \A a \in P : \E i \in Rows :
        df_all[i].section_id = a /\ df_all[i].Date = k[1] /\ df_all[i].Time_Slot = k[2]

QualifiesAt(a, b) ==
    CellPresent(a, b) /\ 0 < df_cm.cell[<<a, b>>] /\ df_cm.cell[<<a, b>>] < 9000

EitherOrientation(P) == \E a, b \in P : a # b /\ QualifiesAt(a, b)

\* C4: whether a co-scheduled pair is reported depends neither on the order of its
\* rows nor on the orientation under which the matrix holds the value: every
\* co-scheduled pair with a qualifying value under (A,B) or (B,A) is counted once.
C4_OrderIndependentLookup ==
    Done => overlap_fails =
              Cardinality({t \in LoopGroups \X SectionPairs :
                             InGroup(t[2], t[1]) /\ EitherOrientation(t[2])})

\* A pair is entirely absent when the matrix has a cell for neither orientation.
Absent(P) == \A a, b \in P : a # b => ~CellPresent(a, b)

FullyPresent(P) == \A a, b \in P : a # b => QualifiesAt(a, b)

CoScheduled == {t \in LoopGroups \X SectionPairs : InGroup(t[2], t[1])}

\* C5: a co-scheduled pair that is entirely absent from the matrix is not
\* reported and raises no error, and the other pairs are still checked: the run
\* never ends in an exception, the count is at most the number of co-scheduled
\* pairs that are not absent and at least the number of those whose both cells
\* qualify.
C5_AbsentPairIgnored ==
    /\ pc # "crashed"
    /\ Done => /\ overlap_fails <= Cardinality({t \in CoScheduled : ~Absent(t[2])})
               /\ overlap_fails >= Cardinality({t \in CoScheduled : FullyPresent(t[2])})

\* Three co-scheduled sections, one of them on neither axis of the matrix.
C5_Witness ==
    /\ Done
    /\ overlap_fails = 1
    /\ \E t \in CoScheduled : Absent(t[2])
    /\ \E t \in CoScheduled : FullyPresent(t[2])
    /\ \E k \in LoopGroups : Cardinality({P \in SectionPairs : InGroup(P, k)}) = 3

\* The allowed slot set of a day: the reduced set on Sunday.
AllowedFor(day) == IF day = "Sunday" THEN Range(SUN_SLOTS) ELSE Range(WD_SLOTS)

\* C6: slot validity is per day: the invalid-slot count is the number of sessions
\* whose slot is not in the allowed set of their own day, so a Sunday session at
\* 16:30 or 18:15 fails the check.
C6_SlotValidPerDay ==
    Done => /\ bad = Cardinality({i \in Rows : df_all[i].slot \notin AllowedFor(df_all[i].day)})
            /\ checks[6].ok <=> (bad = 0)

\* A section diverges when some (day, slot) it has in one week is missing from
\* another week in which it meets.
Diverges(sid) ==
    \E i, j \in Rows :
        /\ df_all[i].section_id = sid
        /\ df_all[j].section_id = sid
        /\ df_all[i].week # df_all[j].week
        /\ ~\E k \in Rows : /\ df_all[k].section_id = sid
                            /\ df_all[k].week = df_all[j].week
                            /\ df_all[k].day = df_all[i].day
                            /\ df_all[k].slot = df_all[i].slot

Diverging == {sid \in SectionIds : Diverges(sid)}

\* The check shows one flag: "Varies" or nothing.
PatternViolationsShown == IF pat_ok THEN 0 ELSE 1

Exceeds(i) ==
    /\ IsInt(tt_csv[i].Room_Number)
    /\ ToInt(tt_csv[i].Room_Number) > (IF tt_csv[i].Week <= 4 THEN 10 ELSE 4)

\* C8: every session whose numeric room exceeds the ceiling of its week (10 up to
\* week 4, 4 afterwards) fails its row check, no other session does, and the
\* capacity check passes iff no session exceeds its ceiling.
C8_RoomCeiling ==
    Done => /\ \A i \in Rows : rchk(df_all[i]) <=> ~Exceeds(i)
            /\ ra <=> (\A i \in Rows : ~Exceeds(i))
            /\ checks[7].ok = ra

\* Room 10 and room 5 pass in week 4; room 5 fails in week 5.
C8_Witness ==
    /\ Done
    /\ ~ra
    /\ \E i, j \in Rows :
          /\ tt_csv[i].Week = 4 /\ tt_csv[i].Room_Number = <<"1", "0">> /\ rchk(df_all[i])
          /\ tt_csv[j].Week = 5 /\ tt_csv[j].Room_Number = <<"5">> /\ ~rchk(df_all[j])

\* C9: a slot text that is no key of the lookup table is never given a canonical
\* slot: no session loaded from such a row takes part in the checks.
C9_UnmappedSlotRejected ==
    pc \in {"loaded", "done"} =>
        \A i \in Rows : tt_csv[i].Time_Slot \in DOMAIN SLOT_MAPPING

\* C10: the success message is shown only if the room, faculty, overlap, pattern,
\* slot and capacity checks all pass; otherwise the error message is shown.
C10_PassOnlyIfAllPass ==
    Done => /\ verdict \in {"success", "error"}
            /\ verdict = "success" =>
                  (rc = 0 /\ fc_v = 0 /\ overlap_fails = 0 /\ pat_ok /\ bad = 0 /\ ra)

\* Of all the checks only the capacity check fails: 941 sessions, one in room 11.
C10_Witness ==
    /\ Done
    /\ Len(df_all) >= 940
    /\ rc = 0 /\ fc_v = 0 /\ overlap_fails = 0 /\ pat_ok /\ bad = 0 /\ ~ra
    /\ verdict = "error"

\* The three input tables have zero rows (and can be read).
ZeroRows == files_present /\ tt_csv = <<>> /\ en_csv = <<>> /\ cm_csv = EmptyFrame

\* C11: for inputs with zero rows validation runs to completion, every check
\* passes with zero violations and the aggregate verdict is PASS: the run is
\* never stopped before the checks, and once it is over the success message is
\* shown.
C11_EmptyInputPasses ==
    ZeroRows => /\ pc \notin {"stopped", "crashed"}
                /\ Done => (AllOk(checks) /\ verdict = "success")

\* The room text of a session resolves to no number.
NonNumericRoom(i) == ~IsInt(RemoveCR(df_all[i].room))

\* C12: a session whose room resolves to no number is never treated as
\* compliant: the capacity check does not pass for a schedule that holds one.
C12_NonNumericRoomNotCompliant ==
    Done => \A i \in Rows : NonNumericRoom(i) => (~rchk(df_all[i]) /\ ~ra /\ ~checks[7].ok)

\* The students enrolled in both sections, by the enrolment file.
SharedStudents(a, b) ==
    {en_csv[k].StudentID : k \in {j \in DOMAIN en_csv : en_csv[j].Section_Label = a}}
    \cap {en_csv[k].StudentID : k \in {j \in DOMAIN en_csv : en_csv[j].Section_Label = b}}

\* The matrix covers every section of the schedule and of the enrolment on both
\* axes, and each cell of two distinct sections is the number of students
\* enrolled in both.
MatrixExact ==
    /\ df_cm.index = df_cm.columns
    /\ SectionIds \subseteq df_cm.index
    /\ {en_csv[k].Section_Label : k \in DOMAIN en_csv} \subseteq df_cm.index
    /\ \A a \in df_cm.index, b \in df_cm.columns :
          a # b => df_cm.cell[<<a, b>>] = Cardinality(SharedStudents(a, b))

\* C13: when every matrix cell of two distinct sections is the number of
\* students enrolled in both and "Student Class Overlaps" reports 0, the
\* personal timetable of every student shows no time conflict.
C13_NoOverlapNoStudentConflict ==
    (Done /\ MatrixExact /\ overlap_fails = 0) => n_cf = 0

====
